---- MODULE Spec2Model ----
(***************************************************************************)
(* The admin-gated CRUD API over the notes, papers and syllabus            *)
(* collections (backend/routes/*.py) and its auth gate                     *)
(* (backend/routes/auth_utils.py).                                         *)
(*                                                                         *)
(* Value encoding.  Python values are tagged records so that None, text,   *)
(* lists and datetimes stay distinct: a text is a sequence of one-char     *)
(* strings, a datetime is a clock reading, an ISO string is what           *)
(* isoformat() makes of a datetime.  A document or a JSON object is a      *)
(* function from field names to values; `_id` maps to the identifier.      *)
(***************************************************************************)
EXTENDS Integers, Sequences, FiniteSets, TLC

\* ---------------------------------------------------------------- bounds
MaxTime == 1
MaxIds == 2
MaxRequests == 3
MaxProcs == 1

Time == 0..MaxTime
Ids == 1..MaxIds
Procs == 1..MaxProcs

\* ---------------------------------------------------------------- values
None == [type |-> "NoneType"]
Str(s) == [type |-> "str", val |-> s]
List(l) == [type |-> "list", val |-> l]
Datetime(t) == [type |-> "datetime", val |-> t]
\* datetime.isoformat(): a string, no longer a datetime, that keeps the instant
IsoFormat(d) == [type |-> "str", iso |-> d.val]

EmptyDict == [k \in {} |-> None]
\* dict.get(key, default)
DictGet(d, key, default) == IF key \in DOMAIN d THEN d[key] ELSE default
\* the dict without one key (dict.pop's effect on the dict)
DictWithout(d, key) == [k \in DOMAIN d \ {key} |-> d[k]]
\* dict.update(other) / {**d, **other} / $set: other's entries win
DictUpdate(d, other) == other @@ d

\* ------------------------------------------------------------- auth gate
\* config.JWT_SECRET_KEY and config.JWT_ALGORITHM, and what else a token can
\* be signed with
JWT_SECRET_KEY == "secret"
JWT_ALGORITHM == "HS256"
Keys == {JWT_SECRET_KEY, "forged"}
Algorithms == {JWT_ALGORITHM, "none"}

\* The decoded claims of a token: any of sub, is_admin (a boolean) and exp.
ClaimsOf(sub, adm, exp) ==
    (IF sub = "-" THEN EmptyDict ELSE ("sub" :> sub))
    @@ (IF adm = "-" THEN EmptyDict ELSE ("is_admin" :> (adm = "true")))
    @@ (IF exp = -1 THEN EmptyDict ELSE ("exp" :> exp))
AllClaims ==
    {ClaimsOf(s, a, e) : s \in {"-", "u1"}, a \in {"-", "false", "true"},
                         e \in {-1} \cup Time}

\* request.cookies.get("token"): no cookie, an empty cookie, a string that is
\* no JWS, or a JWS with its header algorithm, signing key and claims
NoCookie == [form |-> "absent"]
EmptyCookie == [form |-> "empty"]
GarbageCookie == [form |-> "garbage"]
Jws(alg, key, claims) == [form |-> "jws", alg |-> alg, key |-> key, claims |-> claims]
AllCookies ==
    {NoCookie, EmptyCookie, GarbageCookie}
    \cup {Jws(a, k, c) : a \in Algorithms, k \in Keys, c \in AllClaims}

\* jwt.decode(token, JWT_SECRET_KEY, algorithms=[JWT_ALGORITHM]) at clock t:
\* the claims, or a JWTError for a token that is no JWS, names another
\* algorithm, is signed with another key, or whose exp lies in the past
JwtDecode(token, t) ==
    IF token.form # "jws" THEN [ok |-> FALSE, error |-> "JWTError: malformed"]
    ELSE IF token.alg # JWT_ALGORITHM
    THEN [ok |-> FALSE, error |-> "JWTError: algorithm not allowed"]
    ELSE IF token.key # JWT_SECRET_KEY
    THEN [ok |-> FALSE, error |-> "JWTError: signature verification failed"]
    ELSE IF "exp" \in DOMAIN token.claims /\ token.claims["exp"] < t
    THEN [ok |-> FALSE, error |-> "ExpiredSignatureError"]
    ELSE [ok |-> TRUE, payload |-> token.claims]

\* `not token`: the cookie is missing or the empty string
NotToken(cookie) == cookie.form \in {"absent", "empty"}

HTTPException(status, detail) == [status |-> status, detail |-> detail]
Returned(payload) == [status |-> 200, payload |-> payload]

\* `not payload.get("is_admin")`
NotIsAdmin(payload) == ~ DictGet(payload, "is_admin", FALSE)

\* a verify_admin whose handler catches every exception: the 403 raised inside
\* the try block is turned into the 401 of the except clause
verify_admin_catch_all(cookie, t) ==
    IF NotToken(cookie)
    THEN HTTPException(401, "Missing authentication token")
    ELSE LET dec == JwtDecode(cookie, t)
         IN  IF dec.ok /\ ~ NotIsAdmin(dec.payload)
             THEN Returned(dec.payload)
             ELSE HTTPException(401, "Invalid token")

\* a verify_admin that forgets the is_admin test
verify_admin_no_flag(cookie, t) ==
    IF NotToken(cookie)
    THEN HTTPException(401, "Missing authentication token")
    ELSE LET dec == JwtDecode(cookie, t)
         IN  IF dec.ok THEN Returned(dec.payload)
             ELSE HTTPException(401, "Invalid token")

\* verify_admin(request): the HTTPException(403) raised inside the try block
\* is no JWTError, so it passes the except clause unchanged
verify_admin(cookie, t) ==
    IF NotToken(cookie)
    THEN HTTPException(401, "Missing authentication token")
    ELSE LET dec == JwtDecode(cookie, t)
         IN  IF dec.ok
             THEN IF NotIsAdmin(dec.payload)
                  THEN HTTPException(403, "Admin access required")
                  ELSE Returned(dec.payload)
             ELSE HTTPException(401, "Invalid token")

\* verify_token(request)
verify_token(cookie, t) ==
    IF NotToken(cookie)
    THEN HTTPException(401, "Missing authentication token")
    ELSE LET dec == JwtDecode(cookie, t)
         IN  IF dec.ok THEN Returned(dec.payload)
             ELSE HTTPException(401, "Invalid token")

\* ---------------------------------------------------------------- schema
\* config.MAX_PAGE_SIZE and config.DEFAULT_PAGE_SIZE (scaled to the model)
MAX_PAGE_SIZE == 2
DEFAULT_PAGE_SIZE == 1

Kinds == {"notes", "papers", "syllabus"}

StrField(name, required, min, max) ==
    [name |-> name, type |-> "str", required |-> required, min |-> min, max |-> max]
ListField(name) ==
    [name |-> name, type |-> "list", required |-> FALSE, min |-> 0, max |-> 0]

\* NoteIn
NoteIn ==
    { StrField("title", TRUE, 1, 255), StrField("description", FALSE, 0, 5000),
      StrField("content", FALSE, 0, 50000), ListField("tags") }
\* PaperIn
PaperIn ==
    { StrField("title", TRUE, 1, 255), ListField("authors"),
      StrField("abstract", FALSE, 0, 5000), StrField("file_url", FALSE, 0, 500),
      ListField("tags") }
\* SyllabusIn
SyllabusIn ==
    { StrField("title", TRUE, 1, 255), StrField("course_code", FALSE, 0, 20),
      StrField("branch", FALSE, 0, 100), StrField("year", FALSE, 0, 20),
      StrField("description", FALSE, 0, 5000), ListField("modules"),
      ListField("tags") }

Schema(kind) ==
    CASE kind = "notes" -> NoteIn
      [] kind = "papers" -> PaperIn
      [] kind = "syllabus" -> SyllabusIn

FieldNames(kind) == {f.name : f \in Schema(kind)}

\* Field(None, ...) and Field(default_factory=list)
FieldDefault(f) == IF f.type = "list" THEN List(<<>>) ELSE None

\* pydantic's check of one field of a request body against its declaration:
\* `...` makes the field required, Optional[...] admits null, a str honours
\* min_length and max_length
FieldValid(f, body) ==
    IF f.name \notin DOMAIN body THEN ~ f.required
    ELSE LET v == body[f.name]
         IN  IF v.type = "NoneType" THEN ~ f.required
             ELSE /\ v.type = f.type
                  /\ f.type = "str" => (Len(v.val) >= f.min /\ Len(v.val) <= f.max)

\* the body parses into the model of this kind (else FastAPI answers 422)
BodyValid(kind, body) == \A f \in Schema(kind) : FieldValid(f, body)

\* a payload.dict() that leaves out the fields the body did not carry
PayloadDictUnsetDropped(kind, body) ==
    [n \in FieldNames(kind) \cap DOMAIN body |-> body[n]]

\* payload.dict(): every field of the schema, the unset ones at their default
PayloadDict(kind, body) ==
    [n \in FieldNames(kind) |->
        IF n \in DOMAIN body THEN body[n]
        ELSE FieldDefault(CHOOSE f \in Schema(kind) : f.name = n)]

\* payload.dict(exclude_unset=True): only the fields the body carried
PayloadDictExcludeUnset(kind, body) ==
    [n \in FieldNames(kind) \cap DOMAIN body |-> body[n]]

\* Query(0, ge=0) and Query(DEFAULT_PAGE_SIZE, ge=1, le=MAX_PAGE_SIZE)
PageValid(skip, limit) == skip >= 0 /\ limit >= 1 /\ limit <= MAX_PAGE_SIZE

\* ----------------------------------------------------------------- store
\* A collection is a function from the _id of each document to the document.
EmptyCollection == [i \in {} |-> EmptyDict]

\* $regex with $options "i": the pattern q, read as a regular expression,
\* matches somewhere in the text, letter case ignored.  "." stands for any
\* character; "(" alone is no regular expression.
Lower(c) == IF c = "A" THEN "a" ELSE IF c = "B" THEN "b" ELSE c
RegexValid(q) == \A i \in 1..Len(q) : q[i] # "("
AtomMatches(p, c) == p = "." \/ Lower(p) = Lower(c)
RegexSearchI(q, text) ==
    \E s \in 0..(Len(text) - Len(q)) :
        \A j \in 1..Len(q) : AtomMatches(q[j], text[s + j])

\* {field: {"$regex": q, "$options": "i"}} on a document
RegexClause(doc, field, q) ==
    /\ field \in DOMAIN doc
    /\ doc[field].type = "str"
    /\ RegexSearchI(q, doc[field].val)
\* {field: {"$in": [q]}} on a document
InClause(doc, field, q) ==
    /\ field \in DOMAIN doc
    /\ \/ doc[field].type = "list" /\ \E i \in 1..Len(doc[field].val) : doc[field].val[i] = q
       \/ doc[field].type = "str" /\ doc[field].val = q

\* the fields each search handler names in its $or
RegexFields(kind) ==
    CASE kind = "notes" -> {"title", "description"}
      [] kind = "papers" -> {"title", "abstract"}
      [] kind = "syllabus" -> {"title", "course_code", "branch", "description"}
InFields(kind) ==
    CASE kind = "notes" -> {"tags"}
      [] kind = "papers" -> {"authors", "tags"}
      [] kind = "syllabus" -> {"tags"}

MatchAll == [type |-> "all"]
SearchFilter(kind, q) == [type |-> "or", kind |-> kind, q |-> q]
\* the store rejects the filter (OperationFailure)
FilterFails(filter) == filter.type = "or" /\ ~ RegexValid(filter.q)
DocMatches(doc, filter) ==
    \/ filter.type = "all"
    \/ /\ filter.type = "or"
       /\ \/ \E f \in RegexFields(filter.kind) : RegexClause(doc, f, filter.q)
          \/ \E f \in InFields(filter.kind) : InClause(doc, f, filter.q)

Matching(coll, filter) == {i \in DOMAIN coll : DocMatches(coll[i], filter)}

\* collection.count_documents(filter)
count_documents(coll, filter) == Cardinality(Matching(coll, filter))

\* sort("created_at", -1): a missing created_at sorts as null, below every date
SortKey(doc) == IF "created_at" \in DOMAIN doc THEN doc["created_at"].val ELSE -1

\* the orders of the ids in S (all permutations)
RECURSIVE Orders(_)
Orders(S) ==
    IF S = {} THEN {<<>>}
    ELSE UNION {{<<i>> \o o : o \in Orders(S \ {i})} : i \in S}

Min(a, b) == IF a < b THEN a ELSE b

\* list(collection.find(filter).skip(skip).limit(limit).sort("created_at", -1)):
\* the cursor sorts first, whatever the order of the calls, then skips and
\* limits; documents with equal keys come in any order.  The set of pages the
\* store may return.
FindPages(coll, filter, skip, limit) ==
    LET sorted == {o \in Orders(Matching(coll, filter)) :
                      \A i \in 1..(Len(o) - 1) :
                          SortKey(coll[o[i]]) >= SortKey(coll[o[i + 1]])}
    IN  {[i \in 1..(Min(skip + limit, Len(o)) - Min(skip, Len(o))) |->
              coll[o[Min(skip, Len(o)) + i]]] : o \in sorted}

\* collection.find_one({"_id": id}) found a document
Found(coll, id) == id \in DOMAIN coll

\* an insert_one without the unique index on _id: the new document replaces
\* the one that holds the identifier
insert_one_overwrite(coll, doc) ==
    [ok |-> TRUE, coll |-> (doc["_id"] :> doc) @@ coll]

\* collection.insert_one(doc): DuplicateKeyError when the _id is taken
insert_one(coll, doc) ==
    IF doc["_id"] \in DOMAIN coll
    THEN [ok |-> FALSE, coll |-> coll]
    ELSE [ok |-> TRUE, coll |-> (doc["_id"] :> doc) @@ coll]

\* collection.update_one({"_id": id}, {"$set": set}): no document, no change
update_one(coll, id, set) ==
    IF id \in DOMAIN coll
    THEN [coll EXCEPT ![id] = DictUpdate(@, set)]
    ELSE coll

\* a delete_one that reports a deletion it did not make
delete_one_keep(coll, id) ==
    [deleted_count |-> IF id \in DOMAIN coll THEN 1 ELSE 0, coll |-> coll]

\* collection.delete_one({"_id": id})
delete_one(coll, id) ==
    [deleted_count |-> IF id \in DOMAIN coll THEN 1 ELSE 0,
     coll |-> [i \in DOMAIN coll \ {id} |-> coll[i]]]

\* ------------------------------------------------------------ the state
VARIABLES
    router,     \* the router the requests of this run go to
    now,        \* the clock datetime.utcnow() reads
    db,         \* config.db: "connected", or "None" when there is no handle
    store,      \* db.notes, db.papers, db.syllabus: kind -> collection
    issued,     \* the identifiers uuid.uuid4() has returned
    inflight,   \* the requests between two of their store calls
    resp,       \* the response the latest request step sent, if it sent one
    nreq,       \* the number of requests received
    gone,       \* kind -> the ids deleted with success and not inserted since
    created,    \* the identifiers successful creates have returned
    authReq,    \* the request the auth gate is applied to on its own
    adminOut,   \* what verify_admin made of authReq
    tokenOut    \* what verify_token made of authReq

crudVars == <<router, now, db, store, issued, inflight, resp, nreq, gone, created>>
authVars == <<authReq, adminOut, tokenOut>>
vars == <<router, now, db, store, issued, inflight, resp, nreq, gone, created,
          authReq, adminOut, tokenOut>>

\* ------------------------------------------------------------ the inputs
\* the cookies requests carry: none, no JWS, a user's token, an admin's token,
\* an admin's token that expires after time 0
UserCookie == Jws(JWT_ALGORITHM, JWT_SECRET_KEY, ClaimsOf("u1", "false", -1))
AdminCookie == Jws(JWT_ALGORITHM, JWT_SECRET_KEY, ClaimsOf("u1", "true", -1))
ExpiringAdminCookie == Jws(JWT_ALGORITHM, JWT_SECRET_KEY, ClaimsOf("u1", "true", 0))
RequestCookies ==
    {NoCookie, GarbageCookie, UserCookie, AdminCookie, ExpiringAdminCookie}
\* the cookies the requests of the public routes carry
ReadCookies == {NoCookie, UserCookie}

\* the text field and the list field each kind's bodies use besides title
TextFieldOf(kind) ==
    CASE kind = "notes" -> "description"
      [] kind = "papers" -> "abstract"
      [] kind = "syllabus" -> "course_code"
ListFieldOf(kind) ==
    CASE kind = "notes" -> "tags"
      [] kind = "papers" -> "authors"
      [] kind = "syllabus" -> "modules"

\* the JSON bodies of POST and PUT requests: a title with a list, a text field
\* alone (no title), a title with the text field, and an empty title
BodyTitleList(kind) ==
    ("title" :> Str(<<"A", "b">>)) @@ (ListFieldOf(kind) :> List(<<(<<"a">>)>>))
BodyTextOnly(kind) == (TextFieldOf(kind) :> Str(<<"b">>))
BodyTitleText(kind) ==
    ("title" :> Str(<<"b">>)) @@ (TextFieldOf(kind) :> Str(<<"b">>))
BodyEmptyTitle == ("title" :> Str(<<>>))
RequestBodies(kind) ==
    {BodyTitleList(kind), BodyTextOnly(kind), BodyTitleText(kind), BodyEmptyTitle}

\* the query parameters of list and search requests
QueryPages ==
    { <<0, DEFAULT_PAGE_SIZE>>, <<1, MAX_PAGE_SIZE>>,
      <<-1, 1>>, <<0, 0>>, <<0, MAX_PAGE_SIZE + 1>> }
QueryStrings == {<<>>, <<"a">>, <<".">>, <<"(">>}

\* a document some other writer left in a collection: a title, the defaults,
\* and either no timestamps at all or both timestamps
SeedDoc(kind, id, stamped) ==
    LET fields == DictUpdate(PayloadDict(kind, ("title" :> Str(<<"a">>))), ("_id" :> id))
    IN  IF stamped
        THEN DictUpdate(fields, ("created_at" :> Datetime(0)) @@ ("updated_at" :> Datetime(0)))
        ELSE fields
\* what the collections hold when the run starts: the router's own collection
\* is empty or holds one such document, the other two hold one stamped document
SeededStore == [k \in Kinds |-> (1 :> SeedDoc(k, 1, TRUE))]
InitStores(kind) ==
    {[SeededStore EXCEPT ![kind] = EmptyCollection]}
    \cup {[SeededStore EXCEPT ![kind] = (1 :> SeedDoc(kind, 1, st))] : st \in BOOLEAN}

NoResponse ==
    [n |-> 0, kind |-> "", op |-> "", id |-> 0, cookie |-> NoCookie, at |-> 0,
     payload |-> EmptyDict, calls |-> 0, status |-> 0, body |-> EmptyDict]
NotEvaluated == [status |-> 0, detail |-> ""]

Init ==
    /\ router \in Kinds
    /\ now = 0
    /\ db \in {"connected", "None"}
    /\ store \in InitStores(router)
    /\ issued = {}
    /\ inflight = {}
    /\ resp = NoResponse
    /\ nreq = 0
    /\ gone = [k \in Kinds |-> {}]
    /\ created = {}
    /\ authReq = [cookie |-> NoCookie, now |-> 0]
    /\ adminOut = NotEvaluated
    /\ tokenOut = NotEvaluated

\* ------------------------------------------------------- handler helpers
\* uuid.uuid4(): an identifier it has not returned before
uuid4(seen) == Ids \ seen

\* the k-th datetime.utcnow() of a handler during which the clock ticks before
\* the p-th call (k, p counted from 0)
UtcNow(k, p) == IF k < p THEN now ELSE now + 1
\* the handler makes calls readings; the clock may tick once between them
ClockRun(p, calls) ==
    /\ p \in 0..calls
    /\ p < calls => now < MaxTime
    /\ now' = IF p < calls THEN now + 1 ELSE now

\* note["id"] = note.pop("_id"); the two timestamps through
\* note.get(..., datetime.utcnow()).isoformat(), read at clocks tc and tu
Serialize(doc, tc, tu) ==
    DictUpdate(DictWithout(doc, "_id"),
               ("id" :> doc["_id"])
               @@ ("created_at" :> IsoFormat(DictGet(doc, "created_at", Datetime(tc))))
               @@ ("updated_at" :> IsoFormat(DictGet(doc, "updated_at", Datetime(tu)))))
\* the loop over the page
SerializePage(page, p) ==
    [i \in 1..Len(page) |->
        Serialize(page[i], UtcNow(2 * (i - 1), p), UtcNow(2 * (i - 1) + 1, p))]

\* FastAPI's JSON encoding of a returned dict: a datetime becomes its ISO string
JsonEncode(d) ==
    [k \in DOMAIN d |->
        IF k \notin {"_id", "id"} /\ d[k].type = "datetime" THEN IsoFormat(d[k]) ELSE d[k]]

Detail(text) == [detail |-> text]

\* the response leaves.  resp keeps, of the request it answers: the router, the
\* operation, the path id (0 where there is none), the cookie, the clock when
\* its admin gate ran (0 where the route declares none), the JSON body the
\* handler received, and the number of store calls the request made
Respond(kind, op, id, cookie, at, payload, calls, status, body) ==
    resp' = [n |-> resp.n + 1, kind |-> kind, op |-> op, id |-> id,
             cookie |-> cookie, at |-> at, payload |-> payload, calls |-> calls,
             status |-> status, body |-> body]

\* a request arrives at the router of a kind; the requests of one run are
\* requests to one router
Arrives(kind) ==
    /\ nreq < MaxRequests
    /\ kind = router
    /\ nreq' = nreq + 1
    /\ UNCHANGED router
\* a request is between two of its store calls: the step sends no response
Parks(r) ==
    /\ Cardinality(inflight) < MaxProcs
    /\ inflight' = inflight \cup {r}
    /\ resp' = [NoResponse EXCEPT !.n = resp.n]

\* the request is answered without touching the store, the clock or the queue
Reject(kind, op, id, cookie, payload, calls, status, text) ==
    /\ Respond(kind, op, id, cookie, IF op \in {"list", "search", "get"} THEN 0 ELSE now,
               payload, calls, status, Detail(text))
    /\ UNCHANGED <<now, db, store, issued, inflight, gone, created>>

\* ------------------------------------------------------------- handlers
\* time passes between requests
Tick ==
    /\ now < MaxTime
    /\ now' = now + 1
    /\ UNCHANGED <<router, db, store, issued, inflight, resp, nreq, gone, created>>
    /\ UNCHANGED authVars

\* GET /: get_notes, get_papers, get_syllabus up to count_documents({})
list_count(kind) ==
    /\ Arrives(kind)
    /\ \E cookie \in ReadCookies, pg \in QueryPages :
          LET skip == pg[1]
              limit == pg[2]
          IN  IF ~ PageValid(skip, limit)
              THEN Reject(kind, "list", 0, cookie, EmptyDict, 0, 422, "validation error")
              ELSE IF db = "None"
              THEN Reject(kind, "list", 0, cookie, EmptyDict, 0, 500, "Database not connected")
              ELSE /\ Parks([rid |-> nreq, op |-> "list", kind |-> kind,
                             cookie |-> cookie, skip |-> skip, limit |-> limit,
                             total |-> count_documents(store[kind], MatchAll)])
                   /\ UNCHANGED <<now, db, store, issued, gone, created>>
    /\ UNCHANGED authVars

\* GET /: from find(...) to the response
list_find(r) ==
    /\ r.op = "list"
    /\ \E page \in FindPages(store[r.kind], MatchAll, r.skip, r.limit) :
          \E p \in 0..(2 * Len(page)) :
             /\ ClockRun(p, 2 * Len(page))
             /\ Respond(r.kind, "list", 0, r.cookie, 0, EmptyDict, 2, 200,
                        [success |-> TRUE, data |-> SerializePage(page, p),
                         pagination |-> [total |-> r.total, skip |-> r.skip,
                                         limit |-> r.limit, returned |-> Len(page)]])
    /\ inflight' = inflight \ {r}
    /\ UNCHANGED <<router, db, store, issued, nreq, gone, created>>
    /\ UNCHANGED authVars

\* GET /search: search_notes, search_papers, search_syllabus up to
\* count_documents(search_filter)
search_count(kind) ==
    /\ Arrives(kind)
    /\ \E cookie \in ReadCookies, q \in QueryStrings, pg \in QueryPages :
          LET skip == pg[1]
              limit == pg[2]
          IN  IF Len(q) < 1 \/ ~ PageValid(skip, limit)
              THEN Reject(kind, "search", 0, cookie, EmptyDict, 0, 422, "validation error")
              ELSE IF db = "None"
              THEN Reject(kind, "search", 0, cookie, EmptyDict, 0, 500, "Database not connected")
              ELSE IF FilterFails(SearchFilter(kind, q))
              THEN Reject(kind, "search", 0, cookie, EmptyDict, 1, 500,
                          "Regular expression is invalid")
              ELSE /\ Parks([rid |-> nreq, op |-> "search", kind |-> kind,
                             cookie |-> cookie, q |-> q,
                             skip |-> skip, limit |-> limit,
                             total |-> count_documents(store[kind], SearchFilter(kind, q))])
                   /\ UNCHANGED <<now, db, store, issued, gone, created>>
    /\ UNCHANGED authVars

\* GET /search: from find(search_filter) to the response
search_find(r) ==
    /\ r.op = "search"
    /\ \E page \in FindPages(store[r.kind], SearchFilter(r.kind, r.q), r.skip, r.limit) :
          \E p \in 0..(2 * Len(page)) :
             /\ ClockRun(p, 2 * Len(page))
             /\ Respond(r.kind, "search", 0, r.cookie, 0, EmptyDict, 2, 200,
                        [success |-> TRUE, query |-> r.q, data |-> SerializePage(page, p),
                         pagination |-> [total |-> r.total, skip |-> r.skip,
                                         limit |-> r.limit, returned |-> Len(page)]])
    /\ inflight' = inflight \ {r}
    /\ UNCHANGED <<router, db, store, issued, nreq, gone, created>>
    /\ UNCHANGED authVars

\* POST /: Depends(verify_admin), the body as NoteIn / PaperIn / SyllabusIn,
\* then create_note, create_paper, create_syllabus
create_item(kind) ==
    /\ Arrives(kind)
    /\ \E cookie \in RequestCookies, body \in RequestBodies(kind) :
          LET gate == verify_admin(cookie, now)
          IN  IF gate.status # 200
              THEN Reject(kind, "create", 0, cookie, EmptyDict, 0, gate.status, gate.detail)
              ELSE IF ~ BodyValid(kind, body)
              THEN Reject(kind, "create", 0, cookie, body, 0, 422, "validation error")
              ELSE IF db = "None"
              THEN Reject(kind, "create", 0, cookie, body, 0, 500, "Database not connected")
              ELSE \E id \in uuid4(issued) :
                      LET doc == DictUpdate(PayloadDict(kind, body),
                                            ("_id" :> id)
                                            @@ ("created_at" :> Datetime(now))
                                            @@ ("updated_at" :> Datetime(now)))
                          ins == insert_one(store[kind], doc)
                      IN  /\ issued' = issued \cup {id}
                          /\ IF ins.ok
                             THEN /\ store' = [store EXCEPT ![kind] = ins.coll]
                                  /\ gone' = [gone EXCEPT ![kind] = @ \ {id}]
                                  /\ created' = created \cup {id}
                                  /\ Respond(kind, "create", id, cookie, now, body, 1, 200,
                                             [success |-> TRUE,
                                              message |-> "created successfully",
                                              data |-> JsonEncode(DictUpdate(("id" :> id), doc))])
                             ELSE /\ Respond(kind, "create", id, cookie, now, body, 1, 500,
                                             Detail("DuplicateKeyError"))
                                  /\ UNCHANGED <<store, gone, created>>
                          /\ UNCHANGED <<now, db, inflight>>
    /\ UNCHANGED authVars

\* GET /{id}: get_note, get_paper, get_one_syllabus
get_item(kind) ==
    /\ Arrives(kind)
    /\ \E cookie \in ReadCookies, id \in Ids :
          IF db = "None"
          THEN Reject(kind, "get", id, cookie, EmptyDict, 0, 500, "Database not connected")
          ELSE IF ~ Found(store[kind], id)
          THEN Reject(kind, "get", id, cookie, EmptyDict, 1, 404, "not found")
          ELSE \E p \in 0..2 :
                  /\ ClockRun(p, 2)
                  /\ Respond(kind, "get", id, cookie, 0, EmptyDict, 1, 200,
                             [success |-> TRUE,
                              data |-> Serialize(store[kind][id], UtcNow(0, p), UtcNow(1, p))])
                  /\ UNCHANGED <<db, store, issued, inflight, gone, created>>
    /\ UNCHANGED authVars

\* PUT /{id}: Depends(verify_admin), the body as NoteIn / PaperIn / SyllabusIn,
\* then update_note, update_paper, update_syllabus up to find_one
update_find_one(kind) ==
    /\ Arrives(kind)
    /\ \E cookie \in RequestCookies, id \in Ids, body \in RequestBodies(kind) :
          LET gate == verify_admin(cookie, now)
          IN  IF gate.status # 200
              THEN Reject(kind, "update", id, cookie, EmptyDict, 0, gate.status, gate.detail)
              ELSE IF ~ BodyValid(kind, body)
              THEN Reject(kind, "update", id, cookie, body, 0, 422, "validation error")
              ELSE IF db = "None"
              THEN Reject(kind, "update", id, cookie, body, 0, 500, "Database not connected")
              ELSE IF ~ Found(store[kind], id)
              THEN Reject(kind, "update", id, cookie, body, 1, 404, "not found")
              ELSE /\ Parks([rid |-> nreq, op |-> "update", kind |-> kind,
                             cookie |-> cookie, at |-> now, id |-> id, body |-> body])
                   /\ UNCHANGED <<now, db, store, issued, gone, created>>
    /\ UNCHANGED authVars

\* PUT /{id}: from payload.dict(exclude_unset=True) through update_one to the
\* response
update_update_one(r) ==
    /\ r.op = "update"
    /\ LET update_data == DictUpdate(PayloadDictExcludeUnset(r.kind, r.body),
                                     ("updated_at" :> Datetime(now)))
       IN  store' = [store EXCEPT ![r.kind] = update_one(@, r.id, update_data)]
    /\ Respond(r.kind, "update", r.id, r.cookie, r.at, r.body, 2, 200,
               [success |-> TRUE, message |-> "updated successfully"])
    /\ inflight' = inflight \ {r}
    /\ UNCHANGED <<router, now, db, issued, nreq, gone, created>>
    /\ UNCHANGED authVars

\* DELETE /{id}: Depends(verify_admin), then delete_note, delete_paper,
\* delete_syllabus
delete_item(kind) ==
    /\ Arrives(kind)
    /\ \E cookie \in RequestCookies, id \in Ids :
          LET gate == verify_admin(cookie, now)
          IN  IF gate.status # 200
              THEN Reject(kind, "delete", id, cookie, EmptyDict, 0, gate.status, gate.detail)
              ELSE IF db = "None"
              THEN Reject(kind, "delete", id, cookie, EmptyDict, 0, 500, "Database not connected")
              ELSE LET result == delete_one(store[kind], id)
                   IN  IF result.deleted_count = 0
                       THEN Reject(kind, "delete", id, cookie, EmptyDict, 1, 404, "not found")
                       ELSE /\ store' = [store EXCEPT ![kind] = result.coll]
                            /\ gone' = [gone EXCEPT ![kind] = @ \cup {id}]
                            /\ Respond(kind, "delete", id, cookie, now, EmptyDict, 1, 200,
                                       [success |-> TRUE, message |-> "deleted successfully"])
                            /\ UNCHANGED <<now, db, issued, inflight, created>>
    /\ UNCHANGED authVars

Next ==
    \/ Tick
    \/ \E kind \in Kinds :
          \/ list_count(kind)
          \/ search_count(kind)
          \/ create_item(kind)
          \/ get_item(kind)
          \/ update_find_one(kind)
          \/ delete_item(kind)
    \/ \E r \in inflight :
          \/ list_find(r)
          \/ search_find(r)
          \/ update_update_one(r)

Spec == Init /\ [][Next]_vars

\* ------------------------------------------------- the auth gate by itself
\* a request arrives with some cookie at some time
auth_request ==
    /\ \E cookie \in AllCookies, t \in Time : authReq' = [cookie |-> cookie, now |-> t]
    /\ adminOut' = NotEvaluated
    /\ tokenOut' = NotEvaluated
    /\ UNCHANGED crudVars

call_verify_admin ==
    /\ adminOut' = verify_admin(authReq.cookie, authReq.now)
    /\ UNCHANGED <<authReq, tokenOut>>
    /\ UNCHANGED crudVars

call_verify_token ==
    /\ tokenOut' = verify_token(authReq.cookie, authReq.now)
    /\ UNCHANGED <<authReq, adminOut>>
    /\ UNCHANGED crudVars

AuthInit == Init /\ db = "connected" /\ router = "notes" /\ store[router] = EmptyCollection

AuthNext == auth_request \/ call_verify_admin \/ call_verify_token

AuthSpec == AuthInit /\ [][AuthNext]_vars

\* ================================================================ claims
\* What the claims call a valid token and an admin token, stated on the cookie
\* itself: a JWS under the configured algorithm and key, not expired at t.
TokenValid(cookie, t) ==
    /\ cookie.form = "jws"
    /\ cookie.alg = JWT_ALGORITHM
    /\ cookie.key = JWT_SECRET_KEY
    /\ "exp" \in DOMAIN cookie.claims => cookie.claims["exp"] >= t
TokenAdmin(cookie) ==
    /\ "is_admin" \in DOMAIN cookie.claims
    /\ cookie.claims["is_admin"] = TRUE

\* C1: verify_admin answers 401 when the token cookie is absent, 401 when the
\* token is malformed, expired or badly signed, 403 when the token is valid and
\* its is_admin claim is false or absent, and returns the decoded claims
\* unchanged exactly when the token is valid and is_admin is true.
C1_AdminGateOutcomes ==
    adminOut # NotEvaluated =>
        LET c == authReq.cookie
            t == authReq.now
        IN  /\ adminOut.status \in {200, 401, 403}
            /\ c.form = "absent" => adminOut.status = 401
            /\ ~ TokenValid(c, t) => adminOut.status = 401
            /\ (TokenValid(c, t) /\ ~ TokenAdmin(c)) => adminOut.status = 403
            /\ (TokenValid(c, t) /\ TokenAdmin(c)) => adminOut = [status |-> 200, payload |-> c.claims]
            /\ adminOut.status = 200 => (TokenValid(c, t) /\ TokenAdmin(c))

\* C1 witness: a valid token without the is_admin claim was refused with 403
C1_Witness ==
    /\ adminOut.status = 403
    /\ TokenValid(authReq.cookie, authReq.now)
    /\ "is_admin" \notin DOMAIN authReq.cookie.claims

\* C3: on one request, verify_admin succeeding means verify_token succeeds with
\* the same claims; verify_token failing means verify_admin fails with the
\* same 401; the two differ only on a valid token that is not admin, where
\* verify_token succeeds and verify_admin answers 403.
C3_AdminRefinesSession ==
    (adminOut # NotEvaluated /\ tokenOut # NotEvaluated) =>
        /\ adminOut.status = 200 => tokenOut = adminOut
        /\ tokenOut.status # 200 => (tokenOut.status = 401 /\ adminOut.status = 401)
        /\ (TokenValid(authReq.cookie, authReq.now) /\ ~ TokenAdmin(authReq.cookie))
              => (tokenOut.status = 200 /\ adminOut.status = 403)
        /\ adminOut.status # tokenOut.status
              => /\ TokenValid(authReq.cookie, authReq.now)
                 /\ ~ TokenAdmin(authReq.cookie)
                 /\ tokenOut = [status |-> 200, payload |-> authReq.cookie.claims]
                 /\ adminOut.status = 403

\* C3 witness: both checks ran on a valid non-admin token and they differ
C3_Witness ==
    /\ tokenOut.status = 200
    /\ adminOut.status = 403
    /\ "is_admin" \in DOMAIN authReq.cookie.claims

\* ---- what the claims about the routers speak of
AdminToken(cookie, t) == TokenValid(cookie, t) /\ TokenAdmin(cookie)
Mutating == {"create", "update", "delete"}
Reads == {"list", "search", "get"}
\* this step sent a response
Answered == resp'.n # resp.n
\* the records a successful response carries
Records(r) ==
    IF r.op \in {"list", "search"}
    THEN {r.body.data[i] : i \in 1..Len(r.body.data)}
    ELSE IF r.op \in {"create", "get"} THEN {r.body.data}
    ELSE {}

\* C2: a create, update or delete whose token is not a valid admin token is
\* answered 401 or 403 without a store call and the three collections stay as
\* they are; a collection changes only in a step of a create, update or delete
\* that carried a valid admin token; list, search and get are never refused
\* for the token, change nothing, and a get of a stored record succeeds
\* whatever the cookie.
C2_MutationNeedsAdmin ==
    [][ /\ (Answered /\ resp'.op \in Mutating /\ ~ AdminToken(resp'.cookie, resp'.at))
            => (resp'.status \in {401, 403} /\ resp'.calls = 0 /\ store' = store
                /\ inflight' = inflight)
        /\ store' # store
            => (Answered /\ resp'.op \in Mutating /\ resp'.status = 200
                /\ AdminToken(resp'.cookie, resp'.at))
        /\ (Answered /\ resp'.op \in Reads)
            => (resp'.status \notin {401, 403} /\ store' = store)
        /\ (Answered /\ resp'.op = "get" /\ db = "connected"
            /\ resp'.id \in DOMAIN store[resp'.kind])
            => resp'.status = 200
      ]_vars

\* C2 witness: a user without the admin flag asked to delete a stored record
\* and got 403
C2_Witness ==
    /\ resp.op = "delete"
    /\ resp.status = 403
    /\ resp.cookie = UserCookie
    /\ resp.id \in DOMAIN store[resp.kind]

\* a body that carries some of the schema's fields, each well formed
PartialPayload(kind, body) ==
    /\ DOMAIN body # {}
    /\ DOMAIN body \subseteq FieldNames(kind)
    /\ \A f \in Schema(kind) : f.name \in DOMAIN body => FieldValid(f, body)

\* C4 (as claimed): an admin update of a stored record with a body that carries
\* only some of the schema fields succeeds, sets exactly those fields and
\* updated_at, and leaves every other field, the identifier and created_at.
C4_PartialUpdateApplies ==
    [][ (/\ Answered
         /\ resp'.op = "update"
         /\ AdminToken(resp'.cookie, resp'.at)
         /\ db = "connected"
         /\ resp'.id \in DOMAIN store[resp'.kind]
         /\ PartialPayload(resp'.kind, resp'.payload))
        => /\ resp'.status = 200
           /\ resp'.id \in DOMAIN store'[resp'.kind]
           /\ LET old == store[resp'.kind][resp'.id]
                  new == store'[resp'.kind][resp'.id]
              IN  /\ DOMAIN new = DOMAIN old \cup DOMAIN resp'.payload \cup {"updated_at"}
                  /\ \A f \in DOMAIN new \ {"updated_at"} :
                        new[f] = IF f \in DOMAIN resp'.payload THEN resp'.payload[f] ELSE old[f]
      ]_vars

\* C5: once a delete of an id succeeded, and until a create inserts that id
\* again, every get of the id and every admin delete of the id is answered
\* 404 and changes nothing.
C5_DeletedStaysGone ==
    [][ (/\ Answered
         /\ resp'.op \in {"get", "delete"}
         /\ resp'.id \in gone[resp'.kind]
         /\ resp'.op = "delete" => AdminToken(resp'.cookie, resp'.at))
        => (resp'.status = 404 /\ store' = store)
      ]_vars

\* C5 witness: a second admin delete of a deleted id was answered 404
C5_Witness ==
    /\ resp.op = "delete"
    /\ resp.status = 404
    /\ resp.id \in gone[resp.kind]

\* C6: a get that directly follows a successful create, with the id the create
\* returned, succeeds and shows every submitted field as submitted, every
\* optional field left out as its default (null, or the empty list), and
\* created_at equal to updated_at.
C6_CreateGetRoundTrip ==
    [][ (/\ resp.op = "create"
         /\ resp.status = 200
         /\ resp'.n = resp.n + 1
         /\ resp'.op = "get"
         /\ resp'.id = resp.body.data["id"])
        => /\ resp'.status = 200
           /\ LET data == resp'.body.data
                  sent == resp.payload
              IN  /\ "id" \in DOMAIN data /\ data["id"] = resp.body.data["id"]
                  /\ \A f \in DOMAIN sent : f \in DOMAIN data /\ data[f] = sent[f]
                  /\ \A f \in FieldNames(resp.kind) \ DOMAIN sent :
                        /\ f \in DOMAIN data
                        /\ data[f] = IF f \in {"tags", "authors", "modules"}
                                     THEN [type |-> "list", val |-> <<>>]
                                     ELSE [type |-> "NoneType"]
                  /\ {"created_at", "updated_at"} \subseteq DOMAIN data
                  /\ data["created_at"] = data["updated_at"]
      ]_vars

\* C6 witness: the run's two requests were a create and a successful get of
\* the record it made
C6_Witness ==
    /\ nreq = 2
    /\ resp.n = 2
    /\ resp.op = "get"
    /\ resp.status = 200
    /\ resp.id \in created

\* C7 (as claimed): every record in a successful list, search, create or get
\* response has its identifier under `id` and has no `_id`.
C7_IdNotStorageName ==
    (resp.status = 200 /\ resp.op \in {"list", "search", "create", "get"}) =>
        \A rec \in Records(resp) : "id" \in DOMAIN rec /\ "_id" \notin DOMAIN rec

\* C8 (as claimed): every record a get, list or search returns has
\* updated_at >= created_at, records stored without a timestamp included.
C8_UpdatedNotBeforeCreated ==
    (resp.status = 200 /\ resp.op \in Reads) =>
        \A rec \in Records(resp) : rec["updated_at"].iso >= rec["created_at"].iso

\* C9: a successful create returns an identifier that was not in the
\* collection and that no earlier create returned, and stores the record
\* under it; every document is stored under its own _id, so no two share
\* one; no step changes the _id of a document that stays.
C9_IdentifierUnique ==
    [][ /\ (Answered /\ resp'.op = "create" /\ resp'.status = 200)
            => /\ resp'.body.data["id"] \notin DOMAIN store[resp'.kind]
               /\ resp'.body.data["id"] \notin created
               /\ resp'.body.data["id"] \in DOMAIN store'[resp'.kind]
        /\ \A k \in Kinds : \A i \in DOMAIN store'[k] : store'[k][i]["_id"] = i
        /\ \A k \in Kinds : \A i \in DOMAIN store[k] \cap DOMAIN store'[k] :
              store'[k][i]["_id"] = store[k][i]["_id"]
      ]_vars

\* C9 witness: the second of two successful creates has just been answered
C9_Witness ==
    /\ Cardinality(created) = 2
    /\ resp.op = "create"
    /\ resp.status = 200

\* C10 (as claimed): every successful list response reports the size of the
\* whole collection as total, orders its records by created_at descending,
\* and returns at most limit and at most total records.
C10_ListPage ==
    (resp.op = "list" /\ resp.status = 200) =>
        LET data == resp.body.data
            pg == resp.body.pagination
        IN  /\ pg.returned = Len(data)
            /\ pg.returned <= pg.limit
            /\ pg.returned <= pg.total
            /\ pg.total = Cardinality(DOMAIN store[resp.kind])
            /\ \A i \in 1..Len(data) : \A j \in i..Len(data) :
                  data[i]["created_at"].iso >= data[j]["created_at"].iso

\* q, taken as literal text, occurs in the text, letter case ignored
LiteralSubstringI(q, text) ==
    \E s \in 0..(Len(text) - Len(q)) :
        \A j \in 1..Len(q) : Lower(q[j]) = Lower(text[s + j])
\* q is a literal substring of a searched text field of the record or an
\* exact element of a searched list field
LiteralMatch(kind, rec, q) ==
    \/ \E f \in RegexFields(kind) \cap DOMAIN rec :
          rec[f].type = "str" /\ LiteralSubstringI(q, rec[f].val)
    \/ \E f \in InFields(kind) \cap DOMAIN rec :
          rec[f].type = "list" /\ \E i \in 1..Len(rec[f].val) : rec[f].val[i] = q

\* C11 (as claimed): every record a successful search(q) returns has q, taken
\* as literal text, as a case-insensitive substring of a searched text field
\* or as an exact element of a searched list field.
C11_SearchLiteral ==
    (resp.op = "search" /\ resp.status = 200) =>
        \A rec \in Records(resp) : LiteralMatch(resp.kind, rec, resp.body.query)

\* C12 (as claimed): whatever the interleaving with deletes, an update is
\* answered with its success acknowledgement only when its write modified a
\* record that was in the collection: the record was there when update_one
\* ran and holds the submitted fields afterwards.
C12_UpdateAckMeansModified ==
    [][ (Answered /\ resp'.op = "update" /\ resp'.status = 200)
        => /\ resp'.id \in DOMAIN store[resp'.kind]
           /\ resp'.id \in DOMAIN store'[resp'.kind]
           /\ \A f \in DOMAIN resp'.payload :
                 store'[resp'.kind][resp'.id][f] = resp'.payload[f]
      ]_vars

====
